---- MODULE Spec2Model ----
(***************************************************************************)
(* A model of tools/build_api.py: the batch build of the static JSON API   *)
(* from headerless navigation CSV exports.                                 *)
(*                                                                         *)
(* Strings whose characters the program inspects (file names, CSV fields,  *)
(* days, county labels) are sequences of one-character strings.  A CSV     *)
(* file is the sequence of rows csv.reader yields, each row a sequence of  *)
(* fields.  The output tree is a function from paths to JSON documents.    *)
(***************************************************************************)
EXTENDS Integers, Sequences, FiniteSets

\* ------------------------------------------------------------------------
\* Characters and strings
\* ------------------------------------------------------------------------

\* The characters that occur in the inputs, in code point order.
Ascii ==
  << " ", "#", "+", ",", "-", ".",
     "0", "1", "2", "3", "4", "5", "6", "7", "8", "9",
     "A", "B", "C", "D", "E", "F", "G", "H", "I", "J", "K", "L", "M",
     "N", "O", "P", "Q", "R", "S", "T", "U", "V", "W", "X", "Y", "Z",
     "a", "b", "c", "d", "e", "f", "g", "h", "i", "j", "k", "l", "m",
     "n", "o", "p", "q", "r", "s", "t", "u", "v", "w", "x", "y", "z" >>

Ord(c) == CHOOSE i \in DOMAIN Ascii : Ascii[i] = c

IsDigit(c) == Ord(c) >= Ord("0") /\ Ord(c) <= Ord("9")

DigitVal(c) == Ord(c) - Ord("0")

IsLower(c) == Ord(c) >= Ord("a") /\ Ord(c) <= Ord("z")

\* str.upper() on one character
UpperChar(c) == IF IsLower(c) THEN Ascii[Ord(c) - Ord("a") + Ord("A")] ELSE c

\* str.upper()
Upper(s) == [i \in DOMAIN s |-> UpperChar(s[i])]

IsSpace(c) == c = " "

RECURSIVE LStrip(_)
LStrip(s) == IF s # <<>> /\ IsSpace(Head(s)) THEN LStrip(Tail(s)) ELSE s

RECURSIVE RStrip(_)
RStrip(s) ==
  IF s # <<>> /\ IsSpace(s[Len(s)]) THEN RStrip(SubSeq(s, 1, Len(s) - 1)) ELSE s

\* str.strip()
Strip(s) == RStrip(LStrip(s))

\* str.replace(c, "")
Remove(s, c) == SelectSeq(s, LAMBDA x : x # c)

\* the ordering of str: code point by code point, a proper prefix first
RECURSIVE StrLess(_, _)
StrLess(a, b) ==
  IF b = <<>> THEN FALSE
  ELSE IF a = <<>> THEN TRUE
  ELSE IF Head(a) # Head(b) THEN Ord(Head(a)) < Ord(Head(b))
  ELSE StrLess(Tail(a), Tail(b))

\* the value of a run of decimal digits
RECURSIVE DigitsVal(_)
DigitsVal(s) ==
  IF s = <<>> THEN 0
  ELSE 10 * DigitsVal(SubSeq(s, 1, Len(s) - 1)) + DigitVal(s[Len(s)])

\* the decimal digits of a natural number, no padding
RECURSIVE NatStr(_)
NatStr(n) ==
  IF n < 10 THEN << Ascii[Ord("0") + n] >>
  ELSE NatStr(n \div 10) \o << Ascii[Ord("0") + (n % 10)] >>

\* two digits, zero padded
Pad2(n) == << Ascii[Ord("0") + (n \div 10)], Ascii[Ord("0") + (n % 10)] >>

\* ------------------------------------------------------------------------
\* _strip_hash, _to_latency
\* ------------------------------------------------------------------------

StripHash(s) == Remove(s, "#")

AllDigits(s) == \A i \in DOMAIN s : IsDigit(s[i])

\* float(s) for the literals the alphabet can spell without an exponent:
\* [sign] digits [. [digits]] | [sign] . digits | [sign] inf | infinity | nan.
\* The result is the kind of float and, for a finite one, its sign and the
\* value of its integer part.
ParseFloat(s) ==
  LET neg  == s # <<>> /\ Head(s) = "-"
      body == IF s # <<>> /\ Head(s) \in {"+", "-"} THEN Tail(s) ELSE s
      word == Upper(body)
      dots == {i \in DOMAIN body : body[i] = "."}
      dot  == CHOOSE i \in dots : TRUE
      ip   == IF dots = {} THEN body ELSE SubSeq(body, 1, dot - 1)
      fp   == IF dots = {} THEN <<>> ELSE SubSeq(body, dot + 1, Len(body))
  IN  IF word \in { <<"I","N","F">>, <<"I","N","F","I","N","I","T","Y">> }
        THEN [kind |-> "inf", neg |-> neg, int |-> 0]
      ELSE IF word = <<"N","A","N">>
        THEN [kind |-> "nan", neg |-> neg, int |-> 0]
      ELSE IF /\ Cardinality(dots) <= 1
              /\ AllDigits(ip) /\ AllDigits(fp)
              /\ Len(ip) + Len(fp) > 0
        THEN [kind |-> "finite", neg |-> neg, int |-> DigitsVal(ip)]
      ELSE [kind |-> "invalid", neg |-> FALSE, int |-> 0]

\* _to_latency(v): status "ok" with the integer, "none" for the None result,
\* "OverflowError" when int() of an infinity raises past the except clause.
ToLatency(v) ==
  LET s == Remove(Strip(v), ",")
      f == ParseFloat(s)
  IN  IF s = <<>> \/ Upper(s) \in { <<"N","A">>, <<"N","U","L","L">> }
        THEN [status |-> "none", val |-> 0]
      ELSE IF f.kind = "invalid" THEN [status |-> "none", val |-> 0]
      ELSE IF f.kind = "nan" THEN [status |-> "none", val |-> 0]
      ELSE IF f.kind = "inf" THEN [status |-> "OverflowError", val |-> 0]
      ELSE [status |-> "ok", val |-> IF f.neg THEN 0 - f.int ELSE f.int]

\* ------------------------------------------------------------------------
\* _parse_day_from_name
\* ------------------------------------------------------------------------

RECURSIVE DigitRun(_)
DigitRun(s) ==
  IF s # <<>> /\ IsDigit(Head(s)) THEN 1 + DigitRun(Tail(s)) ELSE 0

IsLeap(y) == (y % 4 = 0 /\ y % 100 # 0) \/ y % 400 = 0

DaysInMonth(y, m) ==
  IF m = 2 THEN (IF IsLeap(y) THEN 29 ELSE 28)
  ELSE IF m \in {4, 6, 9, 11} THEN 30 ELSE 31

\* the %m directive matches 1[0-2] | 0[1-9] in two characters
Month2(s) == Len(s) = 2 /\ DigitsVal(s) >= 1 /\ DigitsVal(s) <= 12

\* the %d directive matches 3[01] | [12]\d | 0[1-9] in two characters
Day2(s) == Len(s) = 2 /\ DigitsVal(s) >= 1 /\ DigitsVal(s) <= 31

\* datetime.strptime(s, "%Y%m%d") on a string of 7 or 8 digits: the fields
\* the format's regular expression captures, in its order of alternatives,
\* or ok = FALSE where strptime raises ValueError.
Strptime(s) ==
  LET y    == DigitsVal(SubSeq(s, 1, 4))
      rest == SubSeq(s, 5, Len(s))
      bad  == [ok |-> FALSE, y |-> 0, m |-> 0, d |-> 0]
      fld  == IF Len(rest) = 4
                THEN IF Month2(SubSeq(rest, 1, 2)) /\ Day2(SubSeq(rest, 3, 4))
                       THEN [ok |-> TRUE, y |-> y,
                             m |-> DigitsVal(SubSeq(rest, 1, 2)),
                             d |-> DigitsVal(SubSeq(rest, 3, 4))]
                       ELSE bad
              ELSE IF Month2(SubSeq(rest, 1, 2)) /\ rest[3] # "0"
                THEN [ok |-> TRUE, y |-> y,
                      m |-> DigitsVal(SubSeq(rest, 1, 2)),
                      d |-> DigitVal(rest[3])]
              ELSE IF rest[1] # "0" /\ Day2(SubSeq(rest, 2, 3))
                THEN [ok |-> TRUE, y |-> y,
                      m |-> DigitVal(rest[1]),
                      d |-> DigitsVal(SubSeq(rest, 2, 3))]
              ELSE bad
  IN  IF fld.ok /\ y >= 1 /\ fld.d <= DaysInMonth(y, fld.m) THEN fld ELSE bad

\* dt.strftime("%Y-%m-%d")
Strftime(dt) == NatStr(dt.y) \o <<"-">> \o Pad2(dt.m) \o <<"-">> \o Pad2(dt.d)

\* _parse_day_from_name(name): status "ok" with the day, "none" for the None
\* result, "ValueError" when strptime raises.
ParseDayFromName(name) ==
  LET run   == DigitRun(name)
      token == SubSeq(name, 1, IF run > 8 THEN 8 ELSE run)
      dt    == IF Len(token) = 6 THEN Strptime(<<"2", "0">> \o token)
               ELSE Strptime(token)
  IN  IF run < 6 THEN [status |-> "none", day |-> <<>>]
      ELSE IF ~dt.ok THEN [status |-> "ValueError", day |-> <<>>]
      ELSE [status |-> "ok", day |-> Strftime(dt)]

\* ------------------------------------------------------------------------
\* Double precision: the product p * k of percentile
\* ------------------------------------------------------------------------

\* A double is m * 2^(-e), its 53-bit significand m held as 16-bit limbs,
\* least significant first.
LimbBase == 65536

\* the literals of a percentage as Python reads them (float.hex):
\* num / den is the decimal literal, m * 2^(-e) the double nearest to it
P50 == [num |-> 50, den |-> 100, m |-> <<0, 0, 0, 16>>, e |-> 53]

P95 == [num |-> 95, den |-> 100, m |-> <<26214, 26214, 26214, 30>>, e |-> 53]

P99 == [num |-> 99, den |-> 100, m |-> <<18350, 31457, 44564, 31>>, e |-> 53]

RECURSIVE MulLimbs(_, _, _)
MulLimbs(m, k, carry) ==
  IF m = <<>> THEN (IF carry = 0 THEN <<>> ELSE << carry >>)
  ELSE LET v == Head(m) * k + carry
       IN  << v % LimbBase >> \o MulLimbs(Tail(m), k, v \div LimbBase)

Bit(limbs, i) ==
  IF i \div 16 + 1 > Len(limbs) THEN 0
  ELSE (limbs[i \div 16 + 1] \div (2 ^ (i % 16))) % 2

RECURSIVE BitsVal(_, _, _)
BitsVal(limbs, lo, hi) ==
  IF lo > hi THEN 0 ELSE Bit(limbs, lo) + 2 * BitsVal(limbs, lo + 1, hi)

RECURSIVE BitLen(_)
BitLen(n) == IF n = 0 THEN 0 ELSE 1 + BitLen(n \div 2)

\* int(p * k) for a double p in [0, 1] and an int k >= 0: the exact product
\* is rounded to 53 significant bits, ties to even, then truncated.  With q
\* the floor of the exact product, the rounded product reaches q + 1 exactly
\* when the exact one is within half a unit in the last place of it.
FloatMulTrunc(p, k) ==
  LET prod == MulLimbs(p.m, k, 0)
      q    == BitsVal(prod, p.e, 16 * Len(prod))
      t    == p.e + BitLen(q) - 54
      up   == t >= 0 /\ \A i \in t .. (p.e - 1) : Bit(prod, i) = 1
  IN  IF up THEN q + 1 ELSE q

\* ------------------------------------------------------------------------
\* percentile, summarize
\* ------------------------------------------------------------------------

Range(s) == {s[i] : i \in DOMAIN s}

RECURSIVE MinRange(_, _, _)
MinRange(s, lo, hi) ==
  IF lo = hi THEN s[lo]
  ELSE LET a == MinRange(s, lo, (lo + hi) \div 2)
           b == MinRange(s, (lo + hi) \div 2 + 1, hi)
       IN  IF a <= b THEN a ELSE b

\* min(s) and max(s) of a non-empty list of ints
Min(s) == MinRange(s, 1, Len(s))

Max(s) == 0 - MinRange([i \in DOMAIN s |-> 0 - s[i]], 1, Len(s))

\* The stable sort of sorted() on values known to lie in lo .. hi: the
\* values up to the middle of the range, sorted, then the others, sorted;
\* equal values keep their order.
RECURSIVE SortRange(_, _, _)
SortRange(values, lo, hi) ==
  IF values = <<>> \/ lo = hi THEN values
  ELSE LET mid == (lo + hi) \div 2
       IN  SortRange(SelectSeq(values, LAMBDA x : x <= mid), lo, mid)
             \o SortRange(SelectSeq(values, LAMBDA x : x > mid), mid + 1, hi)

\* sorted(values) for a list of ints
Sorted(values) ==
  IF values = <<>> THEN <<>> ELSE SortRange(values, Min(values), Max(values))

\* percentile(values, p)
Percentile(values, p) ==
  IF values = <<>> THEN 0
  ELSE LET s == Sorted(values)
           i == FloatMulTrunc(p, Len(s) - 1)
       IN  s[i + 1]

RECURSIVE SumRange(_, _, _)
SumRange(s, lo, hi) ==
  IF lo > hi THEN 0
  ELSE IF lo = hi THEN s[lo]
  ELSE SumRange(s, lo, (lo + hi) \div 2) + SumRange(s, (lo + hi) \div 2 + 1, hi)

\* sum(values)
Sum(s) == SumRange(s, 1, Len(s))

RECURSIVE Gcd(_, _)
Gcd(a, b) == IF b = 0 THEN a ELSE Gcd(b, a % b)

Abs(n) == IF n < 0 THEN 0 - n ELSE n

\* the float a / b (b > 0), held as the fraction in lowest terms
TrueDiv(a, b) ==
  LET g == Gcd(Abs(a), b)
  IN  [num |-> a \div g, den |-> b \div g, float |-> TRUE]

\* the int 0 that stands for the mean of no rows
IntZero == [num |-> 0, den |-> 1, float |-> FALSE]

Latencies(rows) == [i \in DOMAIN rows |-> rows[i].Latency]

RECURSIVE DistinctInOrder(_)
DistinctInOrder(s) ==
  IF s = <<>> THEN <<>>
  ELSE << Head(s) >>
         \o DistinctInOrder(SelectSeq(Tail(s), LAMBDA x : x # Head(s)))

\* by_cnty_rows: the county groups, in the order their keys were inserted
ByCntyRows(rows) ==
  LET cs == DistinctInOrder([i \in DOMAIN rows |-> rows[i].County])
  IN  [k \in DOMAIN cs |->
         [county |-> cs[k],
          arr    |-> SelectSeq(rows, LAMBDA r : r.County = cs[k])]]

\* summarize(rows): the summary and by_cnty_rows
Summarize(rows) ==
  LET lat  == Latencies(rows)
      grps == ByCntyRows(rows)
  IN  [summary |->
         [count |-> Len(rows),
          mean  |-> IF lat # <<>> THEN TrueDiv(Sum(lat), Len(lat)) ELSE IntZero,
          p50   |-> Percentile(lat, P50),
          p95   |-> Percentile(lat, P95),
          p99   |-> Percentile(lat, P99),
          byCountyAvg |->
            [k \in DOMAIN grps |->
               [county |-> grps[k].county,
                avg    |-> TrueDiv(Sum(Latencies(grps[k].arr)),
                                   Len(grps[k].arr))]]],
       by_cnty |-> grps]

\* ------------------------------------------------------------------------
\* read_headerless_nav
\* ------------------------------------------------------------------------

\* the row a line of six or more fields with a latency becomes
MakeRow(cols) ==
  [time     |-> Strip(cols[1]),
   userID   |-> StripHash(Strip(cols[2])),
   Username |-> Strip(cols[3]),
   County   |-> Upper(Strip(cols[4])),
   Screen   |-> Strip(cols[5]),
   Latency  |-> ToLatency(cols[6]).val]

\* read_headerless_nav(path) on the lines csv.reader yields: status "ok"
\* with the rows, or "OverflowError" when _to_latency raises on a line.
ReadHeaderlessNav(lines) ==
  LET long == SelectSeq(lines, LAMBDA cols : Len(cols) >= 6)
      kept == SelectSeq(long, LAMBDA cols : ToLatency(cols[6]).status = "ok")
  IN  IF \E i \in DOMAIN long : ToLatency(long[i][6]).status = "OverflowError"
        THEN [status |-> "OverflowError", rows |-> <<>>]
        ELSE [status |-> "ok", rows |-> [i \in DOMAIN kept |-> MakeRow(kept[i])]]

\* ------------------------------------------------------------------------
\* The output tree
\* ------------------------------------------------------------------------

TOP_N_PER_COUNTY == 200

Unknown == <<"U", "N", "K", "N", "O", "W", "N">>

\* c or 'UNKNOWN'
CountyLabel(c) == IF c = <<>> THEN Unknown ELSE c

\* The paths under OUT_ROOT.
SummaryPath == [kind |-> "summary.json", day |-> <<>>, county |-> <<>>]

ByCountyPath(c) ==
  [kind |-> "byCounty/c.json", day |-> <<>>, county |-> CountyLabel(c)]

DaysPath == [kind |-> "days.json", day |-> <<>>, county |-> <<>>]

DaySummaryPath(d) ==
  [kind |-> "days/d/summary.json", day |-> d, county |-> <<>>]

DayByCountyPath(d, c) ==
  [kind |-> "days/d/byCounty/c.json", day |-> d, county |-> CountyLabel(c)]

TrendsPath ==
  [kind |-> "trends/summary_by_day.json", day |-> <<>>, county |-> <<>>]

\* write_json opening a listing in append mode: what the file held stays
WriteJsonAppend(t, path, obj) ==
  [q \in DOMAIN t \cup {path} |->
     IF q # path THEN t[q]
     ELSE IF path \in DOMAIN t
               /\ path.kind \in {"byCounty/c.json", "days/d/byCounty/c.json"}
       THEN t[path] \o obj
     ELSE obj]

\* write_json(path, obj) on the tree t: the file at path holds obj alone
WriteJson(t, path, obj) ==
  [q \in DOMAIN t \cup {path} |-> IF q = path THEN obj ELSE t[q]]

\* a sequence of write_json calls, in order
RECURSIVE ApplyWrites(_, _)
ApplyWrites(t, ws) ==
  IF ws = <<>> THEN t
  ELSE ApplyWrites(WriteJson(t, Head(ws).path, Head(ws).obj), Tail(ws))

WrittenPaths(ws) == {ws[i].path : i \in DOMAIN ws}

\* the same sort on rows, by latency, largest first
RECURSIVE SortRowsDesc(_, _, _)
SortRowsDesc(arr, lo, hi) ==
  IF arr = <<>> \/ lo = hi THEN arr
  ELSE LET mid == (lo + hi) \div 2
       IN  SortRowsDesc(SelectSeq(arr, LAMBDA r : r.Latency > mid), mid + 1, hi)
             \o SortRowsDesc(SelectSeq(arr, LAMBDA r : r.Latency <= mid), lo, mid)

\* sorted(arr, key=lambda r: r["Latency"], reverse=True): reverse keeps the
\* sort stable, so rows of equal latency keep their order
SortedByLatencyDesc(arr) ==
  IF arr = <<>> THEN <<>>
  ELSE SortRowsDesc(arr, Min(Latencies(arr)), Max(Latencies(arr)))

\* the listing without the slice
TopNUncapped(arr) == SortedByLatencyDesc(arr)

\* sorted(...)[:TOP_N_PER_COUNTY]
TopN(arr) ==
  LET s == SortedByLatencyDesc(arr)
  IN  SubSeq(s, 1, IF Len(s) > TOP_N_PER_COUNTY THEN TOP_N_PER_COUNTY ELSE Len(s))

\* sorted() of a list of strings (insertion keeps equal strings in order)
RECURSIVE InsertStr(_, _)
InsertStr(s, x) ==
  IF s = <<>> THEN << x >>
  ELSE IF StrLess(x, Head(s)) THEN << x >> \o s
  ELSE << Head(s) >> \o InsertStr(Tail(s), x)

RECURSIVE SortedStrs(_)
SortedStrs(s) ==
  IF s = <<>> THEN <<>>
  ELSE InsertStr(SortedStrs(SubSeq(s, 1, Len(s) - 1)), s[Len(s)])

\* the writes of the loop body for one file: the day's summary, then one
\* listing per county of the file
DayWrites(day, rows) ==
  LET sm == Summarize(rows)
  IN  << [path |-> DaySummaryPath(day), obj |-> sm.summary] >>
        \o [k \in DOMAIN sm.by_cnty |->
              [path |-> DayByCountyPath(day, sm.by_cnty[k].county),
               obj  |-> TopN(sm.by_cnty[k].arr)]]

\* the index of days
DaysWrites(ds) == << [path |-> DaysPath, obj |-> [days |-> SortedStrs(ds)]] >>

\* one entry of the trend, from the day's summary document as json.load
\* reads it back
TrendEntry(t, d) ==
  LET dsum == t[DaySummaryPath(d)]
  IN  [day |-> d, count |-> dsum.count, mean |-> dsum.mean,
       p50 |-> dsum.p50, p95 |-> dsum.p95, p99 |-> dsum.p99]

\* the writes under "if all_rows:": the summary, one listing per county,
\* then the trend read back from the tree
AllDaysDocs(t, rows, ds) ==
  LET sm  == Summarize(rows)
      ws  == << [path |-> SummaryPath, obj |-> sm.summary] >>
               \o [k \in DOMAIN sm.by_cnty |->
                     [path |-> ByCountyPath(sm.by_cnty[k].county),
                      obj  |-> TopN(sm.by_cnty[k].arr)]]
      t2  == ApplyWrites(t, ws)
      sds == SortedStrs(ds)
  IN  ws \o << [path |-> TrendsPath,
                obj  |-> [i \in DOMAIN sds |-> TrendEntry(t2, sds[i])]] >>

\* the all-days part without its test of all_rows
AllDaysWritesUnguarded(t, rows, ds) == AllDaysDocs(t, rows, ds)

\* the writes of the all-days part on the tree t
AllDaysWrites(t, rows, ds) ==
  IF rows = <<>> THEN <<>> ELSE AllDaysDocs(t, rows, ds)

\* ------------------------------------------------------------------------
\* The data directory
\* ------------------------------------------------------------------------

NavSuffix ==
  << ".", "u", "s", "e", "r", "R", "e", "c", "o", "r", "d", ".",
     "N", "A", "V", "I", "G", "A", "T", "I", "O", "N", ".", "c", "s", "v" >>

\* fnmatch of a name against "*userRecord.NAVIGATION.csv"
MatchesPattern(name) ==
  LET pat == Tail(NavSuffix)
  IN  Len(name) >= Len(pat)
        /\ SubSeq(name, Len(name) - Len(pat) + 1, Len(name)) = pat

\* sorted(DATA_DIR.glob("*userRecord.NAVIGATION.csv")): a directory that is
\* missing or cannot be listed yields no path and no error
GlobSorted(dir) ==
  LET hits  == IF dir.state = "ok"
                 THEN {f \in dir.files : MatchesPattern(f.name)} ELSE {}
      n     == Cardinality(hits)
      names == SortedStrs(CHOOSE q \in [1 .. n -> {f.name : f \in hits}] :
                            Range(q) = {f.name : f \in hits})
  IN  [i \in 1 .. n |-> CHOOSE f \in hits : f.name = names[i]]

\* ------------------------------------------------------------------------
\* Inputs
\* ------------------------------------------------------------------------

MaxFiles == 2

MaxRuns == 2

BigExtra == 1

MaxValues == 101

Line(t, u, n, c, sc, l) == << t, u, n, c, sc, l >>

Home == <<"H", "o", "m", "e">>

\* 250101.userRecord.NAVIGATION.csv: t1,#U1,alice,wake,Home,1000
FileJan1 ==
  [name  |-> <<"2", "5", "0", "1", "0", "1">> \o NavSuffix,
   lines |-> << Line(<<"t", "1">>, <<"#", "U", "1">>,
                     <<"a", "l", "i", "c", "e">>, <<"w", "a", "k", "e">>,
                     Home, <<"1", "0", "0", "0">>) >>]

\* 250102.userRecord.NAVIGATION.csv: t2,U2,bob,WAKE,Home,3000
FileJan2 ==
  [name  |-> <<"2", "5", "0", "1", "0", "2">> \o NavSuffix,
   lines |-> << Line(<<"t", "2">>, <<"U", "2">>, <<"b", "o", "b">>,
                     <<"W", "A", "K", "E">>, Home, <<"3", "0", "0", "0">>) >>]

\* 20250101.userRecord.NAVIGATION.csv: the day of FileJan1 again, two rows
\* of another county
FileJan1Long ==
  [name  |-> <<"2", "0", "2", "5", "0", "1", "0", "1">> \o NavSuffix,
   lines |-> << Line(<<"t", "3">>, <<"U", "3">>, <<"c", "a", "l">>,
                     <<" ", "d", "u", "r", "h", "a", "m", " ">>, Home,
                     <<"5", ",", "9", "8", "3">>),
                Line(<<"t", "4">>, <<"U", "4">>, <<"d", "e", "e">>,
                     <<"D", "u", "r", "h", "a", "m">>, Home,
                     <<" ", "7", "0", " ">>) >>]

\* 250230.userRecord.NAVIGATION.csv: no such calendar date
FileFeb30 ==
  [name  |-> <<"2", "5", "0", "2", "3", "0">> \o NavSuffix,
   lines |-> << Line(<<"t", "5">>, <<"U", "5">>, <<"e", "v", "e">>,
                     <<"W", "A", "K", "E">>, Home, <<"4", "0">>) >>]

\* 250103.userRecord.NAVIGATION.csv: a header line, a short line and lines
\* whose latency is missing; no line yields a row
FileJan3 ==
  [name  |-> <<"2", "5", "0", "1", "0", "3">> \o NavSuffix,
   lines |-> << Line(<<"t", "i", "m", "e">>, <<"u", "s", "e", "r", "I", "D">>,
                     <<"u", "s", "e", "r", "n", "a", "m", "e">>,
                     <<"c", "o", "u", "n", "t", "y">>,
                     <<"s", "c", "r", "e", "e", "n">>,
                     <<"l", "a", "t", "e", "n", "c", "y">>),
                << <<"t", "6">>, <<"U", "6">> >>,
                Line(<<"t", "7">>, <<"U", "7">>, <<>>, <<"W", "A", "K", "E">>,
                     <<>>, <<"N", "A">>),
                Line(<<"t", "8">>, <<"U", "8">>, <<>>, <<"W", "A", "K", "E">>,
                     <<>>, <<"a", "b", "c">>),
                Line(<<"t", "9">>, <<"U", "9">>, <<>>, <<"W", "A", "K", "E">>,
                     <<>>, <<" ">>) >>]

\* 250104.userRecord.NAVIGATION.csv: a row of the empty county, then rows
\* of the county spelled unknown; one line has a seventh field
FileJan4 ==
  [name  |-> <<"2", "5", "0", "1", "0", "4">> \o NavSuffix,
   lines |-> << Line(<<"t", "1", "0">>, <<"U", "1">>, <<"f", "a", "y">>,
                     <<" ">>, Home, <<"5", "9", "8", "3", ".", "0">>),
                Line(<<"t", "1", "1">>, <<"U", "2">>, <<"g", "u", "s">>,
                     <<"u", "n", "k", "n", "o", "w", "n">>, Home,
                     <<"2", "0">>) \o << <<"x">> >>,
                Line(<<"t", "1", "2">>, <<"U", "3">>, <<"h", "a", "l">>,
                     <<"U", "N", "K", "N", "O", "W", "N">>, Home,
                     <<"3", "0">>) >>]

\* 250105.userRecord.NAVIGATION.csv: a latency below zero
FileJan5 ==
  [name  |-> <<"2", "5", "0", "1", "0", "5">> \o NavSuffix,
   lines |-> << Line(<<"t", "1", "3">>, <<"U", "1">>, <<"i", "d", "a">>,
                     <<"W", "A", "K", "E">>, Home, <<"-", "5">>),
                Line(<<"t", "1", "4">>, <<"U", "2">>, <<"j", "o", "e">>,
                     <<"W", "A", "K", "E">>, Home, <<"7">>) >>]

\* 250106.userRecord.NAVIGATION.csv: a latency float() reads as infinity
FileJan6 ==
  [name  |-> <<"2", "5", "0", "1", "0", "6">> \o NavSuffix,
   lines |-> << Line(<<"t", "1", "5">>, <<"U", "1">>, <<"k", "i", "m">>,
                     <<"W", "A", "K", "E">>, Home, <<"9">>),
                Line(<<"t", "1", "6">>, <<"U", "2">>, <<"l", "e", "o">>,
                     <<"W", "A", "K", "E">>, Home, <<"i", "n", "f">>) >>]

\* 250107.userRecord.NAVIGATION.csv: more rows of one county than the cap
FileJan7 ==
  [name  |-> <<"2", "5", "0", "1", "0", "7">> \o NavSuffix,
   lines |-> [i \in 1 .. (TOP_N_PER_COUNTY + BigExtra) |->
                Line(NatStr(i), <<"U">>, <<>>, <<"W", "A", "K", "E">>,
                     <<>>, NatStr((i * 7) % 13))]]

\* notes.userRecord.NAVIGATION.csv: no leading date token
FileNotes ==
  [name  |-> <<"n", "o", "t", "e", "s">> \o NavSuffix,
   lines |-> << Line(<<"t", "1", "7">>, <<"U", "1">>, <<"m", "a", "x">>,
                     <<"W", "A", "K", "E">>, Home, <<"8">>) >>]

\* 250108.userRecord.NAVIGATION.TOTAL.csv: the glob does not match it
FileTotal ==
  [name  |-> <<"2", "5", "0", "1", "0", "8", ".", "u", "s", "e", "r",
               "R", "e", "c", "o", "r", "d", ".", "N", "A", "V", "I", "G",
               "A", "T", "I", "O", "N", ".", "T", "O", "T", "A", "L",
               ".", "c", "s", "v">>,
   lines |-> << Line(<<"t", "1", "8">>, <<"U", "1">>, <<"n", "e", "d">>,
                     <<"W", "A", "K", "E">>, Home, <<"6">>) >>]

FilePool ==
  { FileJan1, FileJan2, FileJan1Long, FileFeb30, FileJan3, FileJan4,
    FileJan5, FileJan6, FileJan7, FileNotes, FileTotal }

\* the states of DATA_DIR: present with up to MaxFiles files, missing, or
\* present but not listable
DataDirs ==
  { [state |-> "ok", files |-> S] :
      S \in {T \in SUBSET FilePool : Cardinality(T) <= MaxFiles} }
    \cup { [state |-> "missing", files |-> {}],
           [state |-> "unreadable", files |-> {FileJan1}] }

EmptyTree == [q \in {} |-> 0]

Jan1 == <<"2", "0", "2", "5", "-", "0", "1", "-", "0", "1">>

OldRow ==
  [time |-> <<"t", "0">>, userID |-> <<"U", "0">>, Username |-> <<"o", "l", "d">>,
   County |-> <<"W", "A", "K", "E">>, Screen |-> Home, Latency |-> 1]

\* a tree an earlier build over other inputs left behind
StaleTree ==
  LET sm == Summarize(<< OldRow >>).summary
  IN  ApplyWrites(EmptyTree,
        << [path |-> DaySummaryPath(Jan1), obj |-> sm],
           [path |-> DayByCountyPath(Jan1, OldRow.County), obj |-> << OldRow >>],
           [path |-> DaysPath, obj |-> [days |-> << Jan1 >>]],
           [path |-> SummaryPath, obj |-> sm],
           [path |-> ByCountyPath(OldRow.County), obj |-> << OldRow >>],
           [path |-> ByCountyPath(<<"O", "L", "D">>), obj |-> << OldRow >>],
           [path |-> TrendsPath,
            obj  |-> << [day |-> Jan1, count |-> sm.count, mean |-> sm.mean,
                         p50 |-> sm.p50, p95 |-> sm.p95, p99 |-> sm.p99] >>] >>)

PriorTrees == { EmptyTree, StaleTree }

\* the literals 0, 0.29 and 1.0 (see P50)
P0 == [num |-> 0, den |-> 100, m |-> <<0, 0, 0, 0>>, e |-> 0]

P29 == [num |-> 29, den |-> 100, m |-> <<49807, 10485, 36700, 18>>, e |-> 54]

P100 == [num |-> 100, den |-> 100, m |-> <<0, 0, 0, 16>>, e |-> 52]

PctArgs == { P0, P29, P50, P95, P99, P100 }

\* a list of n latencies, no two equal, not in order
ValuesOf(n) == [i \in 1 .. n |-> (37 * i) % 211]

\* ------------------------------------------------------------------------
\* build()
\* ------------------------------------------------------------------------

VARIABLES
  dataDir,    \* DATA_DIR: its state and the files in it
  tree,       \* the files under OUT_ROOT
  pc,         \* where build() is
  files,      \* the sorted list of matched files
  fi,         \* the position of the for loop in files
  days,       \* the list days
  all_rows,   \* the list all_rows
  written,    \* the paths this run has written
  err,        \* the exception that ended the run
  run,        \* the number of the run
  tree1,      \* the tree the run before left
  values,     \* percentile: the argument values
  pct,        \* percentile: the argument p
  result      \* percentile: the value returned

buildVars == << tree, pc, files, fi, days, all_rows, written, err, run, tree1 >>

pctVars == << values, pct, result >>

vars == << dataDir, buildVars, pctVars >>

Init ==
  /\ dataDir \in DataDirs
  /\ tree \in PriorTrees
  /\ pc = "start"
  /\ files = <<>>
  /\ fi = 1
  /\ days = <<>>
  /\ all_rows = <<>>
  /\ written = {}
  /\ err = "none"
  /\ run = 1
  /\ tree1 = EmptyTree
  /\ values = <<>>
  /\ pct = P50
  /\ result = 0

\* OUT_ROOT.mkdir, the glob, days = [], all_rows = []
Start ==
  /\ pc = "start"
  /\ files' = GlobSorted(dataDir)
  /\ fi' = 1
  /\ days' = <<>>
  /\ all_rows' = <<>>
  /\ pc' = "loop"
  /\ UNCHANGED << dataDir, tree, written, err, run, tree1, pctVars >>

InLoop == pc = "loop" /\ fi <= Len(files)

CurDay == ParseDayFromName(files[fi].name)

CurRead == ReadHeaderlessNav(files[fi].lines)

\* the loop body when _parse_day_from_name returns None: continue
SkipFile ==
  /\ InLoop
  /\ CurDay.status = "none"
  /\ fi' = fi + 1
  /\ UNCHANGED << dataDir, tree, pc, files, days, all_rows, written, err,
                  run, tree1, pctVars >>

\* the loop body when strptime raises: build() ends with the exception
RaiseInParseDay ==
  /\ InLoop
  /\ CurDay.status = "ValueError"
  /\ pc' = "raised"
  /\ err' = "ValueError"
  /\ UNCHANGED << dataDir, tree, files, fi, days, all_rows, written,
                  run, tree1, pctVars >>

\* the loop body when _to_latency raises: the day is appended already
RaiseInRead ==
  /\ InLoop
  /\ CurDay.status = "ok"
  /\ CurRead.status = "OverflowError"
  /\ days' = Append(days, CurDay.day)
  /\ pc' = "raised"
  /\ err' = "OverflowError"
  /\ UNCHANGED << dataDir, tree, files, fi, all_rows, written,
                  run, tree1, pctVars >>

\* the loop body for a file with a day
ProcessFile ==
  /\ InLoop
  /\ CurDay.status = "ok"
  /\ CurRead.status = "ok"
  /\ days' = Append(days, CurDay.day)
  /\ LET ws == DayWrites(CurDay.day, CurRead.rows)
     IN  /\ tree' = ApplyWrites(tree, ws)
         /\ written' = written \cup WrittenPaths(ws)
  /\ all_rows' = all_rows \o CurRead.rows
  /\ fi' = fi + 1
  /\ UNCHANGED << dataDir, pc, files, err, run, tree1, pctVars >>

\* after the loop: the index of days
WriteDays ==
  /\ pc = "loop"
  /\ fi > Len(files)
  /\ LET ws == DaysWrites(days)
     IN  /\ tree' = ApplyWrites(tree, ws)
         /\ written' = written \cup WrittenPaths(ws)
  /\ pc' = "all"
  /\ UNCHANGED << dataDir, files, fi, days, all_rows, err, run, tree1,
                  pctVars >>

\* the all-days part, then build() returns
AllDays ==
  /\ pc = "all"
  /\ LET ws == AllDaysWrites(tree, all_rows, days)
     IN  /\ tree' = ApplyWrites(tree, ws)
         /\ written' = written \cup WrittenPaths(ws)
  /\ pc' = "done"
  /\ UNCHANGED << dataDir, files, fi, days, all_rows, err, run, tree1,
                  pctVars >>

Ended == pc \in {"done", "raised"}

\* build() is invoked again on the same DATA_DIR and the tree it left
Rerun ==
  /\ Ended
  /\ run < MaxRuns
  /\ tree1' = tree
  /\ run' = run + 1
  /\ pc' = "start"
  /\ files' = <<>>
  /\ fi' = 1
  /\ days' = <<>>
  /\ all_rows' = <<>>
  /\ written' = {}
  /\ err' = "none"
  /\ UNCHANGED << dataDir, tree, pctVars >>

Next ==
  \/ Start
  \/ SkipFile
  \/ RaiseInParseDay
  \/ RaiseInRead
  \/ ProcessFile
  \/ WriteDays
  \/ AllDays
  \/ Rerun

Spec == Init /\ [][Next]_vars

\* ------------------------------------------------------------------------
\* percentile() on its own
\* ------------------------------------------------------------------------

InitPct ==
  /\ values \in {ValuesOf(n) : n \in 0 .. MaxValues}
  /\ pct \in PctArgs
  /\ result = 0
  /\ pc = "call"
  /\ dataDir = [state |-> "missing", files |-> {}]
  /\ tree = EmptyTree
  /\ files = <<>>
  /\ fi = 1
  /\ days = <<>>
  /\ all_rows = <<>>
  /\ written = {}
  /\ err = "none"
  /\ run = 1
  /\ tree1 = EmptyTree

CallPercentile ==
  /\ pc = "call"
  /\ result' = Percentile(values, pct)
  /\ pc' = "return"
  /\ UNCHANGED << dataDir, tree, files, fi, days, all_rows, written, err,
                  run, tree1, values, pct >>

NextPct == CallPercentile

SpecPct == InitPct /\ [][NextPct]_vars

\* ------------------------------------------------------------------------
\* Properties
\* ------------------------------------------------------------------------

ListingKinds == {"byCounty/c.json", "days/d/byCounty/c.json"}

Wake == <<"W", "A", "K", "E">>

\* the leading token of a name, when it has 6 or 8 digits
HasDateToken(name) == DigitRun(name) \in {6, 8}

\* the token, read as YYMMDD or YYYYMMDD, is a date of the calendar
TokenIsDate(name) ==
  LET n  == DigitRun(name)
      y  == IF n = 6 THEN 2000 + DigitsVal(SubSeq(name, 1, 2))
            ELSE DigitsVal(SubSeq(name, 1, 4))
      mo == DigitsVal(SubSeq(name, n - 3, n - 2))
      d  == DigitsVal(SubSeq(name, n - 1, n))
  IN  y >= 1 /\ mo \in 1 .. 12 /\ d >= 1 /\ d <= DaysInMonth(y, mo)

\* the rows of the i-th matched file
RowsOf(i) == ReadHeaderlessNav(files[i].lines).rows

DayOf(i) == ParseDayFromName(files[i].name).day

Count(s, x) == Cardinality({i \in DOMAIN s : s[i] = x})

\* L holds the min(TOP_N_PER_COUNTY, n) rows of highest latency of the n
\* rows G, largest first
IsTopOf(L, G) ==
  /\ Len(L) = IF Len(G) > TOP_N_PER_COUNTY THEN TOP_N_PER_COUNTY ELSE Len(G)
  /\ \A k \in 1 .. (Len(L) - 1) : L[k].Latency >= L[k + 1].Latency
  /\ \A x \in Range(L) : Count(L, x) <= Count(G, x)
  /\ \A x \in Range(G) : Count(L, x) < Count(G, x) => x.Latency <= L[Len(L)].Latency

Group(rows, c) == SelectSeq(rows, LAMBDA r : r.County = c)

Counties(rows) == {rows[i].County : i \in DOMAIN rows}

\* C1: a matched file whose 6- or 8-digit token is not a calendar date is
\* skipped; the run does not end with an error at that file.
C1_InvalidDateFileSkipped ==
  \A i \in DOMAIN files :
    (HasDateToken(files[i].name) /\ ~TokenIsDate(files[i].name))
      => ~(pc = "raised" /\ fi = i)

\* C2: a run that extracted no record has written neither summary.json nor
\* any byCounty document nor the trends, however it ended; when it returns
\* it has written days.json with every day that a file name registered.
C2_ZeroRecords ==
  /\ (Ended /\ all_rows = <<>>) =>
       /\ SummaryPath \notin written
       /\ TrendsPath \notin written
       /\ \A q \in written : q.kind # "byCounty/c.json"
  /\ (pc = "done" /\ all_rows = <<>>) =>
       /\ DaysPath \in written
       /\ Range(tree[DaysPath].days) = Range(days)
       /\ Len(tree[DaysPath].days) = Len(days)
       /\ \A i \in DOMAIN files :
            (HasDateToken(files[i].name) /\ TokenIsDate(files[i].name))
              => DayOf(i) \in Range(tree[DaysPath].days)

C2_Witness ==
  /\ pc = "done"
  /\ all_rows = <<>>
  /\ days # <<>>
  /\ \E i \in DOMAIN files : files[i].lines # <<>> /\ RowsOf(i) = <<>>
  /\ tree[DaysPath].days = days

\* C3: with DATA_DIR missing or unreadable, build() does not complete and
\* does not write days.json.
C3_MissingDirIsFatal ==
  dataDir.state # "ok" => (pc # "done" /\ DaysPath \notin written)

\* C4: when two files resolve to one day, every listing under days/{day}/
\* that the run wrote holds rows of the later file only.
C4_LaterFileWins ==
  pc = "done" =>
    \A i, j \in DOMAIN files :
      (i < j /\ DayOf(i) # <<>> /\ DayOf(i) = DayOf(j)
         /\ \A k \in DOMAIN files : k > j => DayOf(k) # DayOf(j))
        => /\ tree[DaySummaryPath(DayOf(j))] = Summarize(RowsOf(j)).summary
           /\ \A q \in written :
                (q.kind = "days/d/byCounty/c.json" /\ q.day = DayOf(j))
                  => \A r \in Range(tree[q]) : r \in Range(RowsOf(j))

\* C5: every row that reached aggregation has a latency that is an integer
\* not below zero, and no latency field ends the run.
C5_LatencyNonNegative ==
  /\ \A i \in DOMAIN all_rows : all_rows[i].Latency \in Nat
  /\ err # "OverflowError"

\* C6: a second run on the same inputs leaves the tree the first run left,
\* at every path, whatever the tree held before the first run.
C6_Idempotent ==
  (run > 1 /\ Ended) => tree = tree1

C6_Witness ==
  /\ run = 2
  /\ pc = "done"
  /\ all_rows # <<>>
  /\ ByCountyPath(<<"O", "L", "D">>) \in DOMAIN tree
  /\ TrendsPath \in written
  /\ tree = tree1

\* C7: percentile(values, p) is the element at index floor(p * (n - 1)) of
\* the sorted list, and 0 for the empty list.
C7_PercentileIndex ==
  pc = "return" =>
    result = IF values = <<>> THEN 0
             ELSE Sorted(values)[(pct.num * (Len(values) - 1)) \div pct.den + 1]

\* C8: every per-county listing a run wrote, per day or over all days, is
\* ordered by latency descending and holds exactly the min(200, n) rows of
\* highest latency of the n rows of a county of its scope.
C8_ListingsAreTopN ==
  \A q \in written :
    q.kind \in ListingKinds =>
      /\ Len(tree[q]) <= TOP_N_PER_COUNTY
      /\ IF q.kind = "byCounty/c.json"
           THEN \E c \in Counties(all_rows) :
                  /\ CountyLabel(c) = q.county
                  /\ IsTopOf(tree[q], Group(all_rows, c))
           ELSE \E i \in 1 .. (fi - 1) :
                  /\ DayOf(i) = q.day
                  /\ \E c \in Counties(RowsOf(i)) :
                       /\ CountyLabel(c) = q.county
                       /\ IsTopOf(tree[q], Group(RowsOf(i), c))

C8_Witness ==
  /\ pc = "done"
  /\ Len(Group(all_rows, Wake)) > TOP_N_PER_COUNTY
  /\ ByCountyPath(Wake) \in written
  /\ Len(tree[ByCountyPath(Wake)]) = TOP_N_PER_COUNTY
  /\ \E q \in written :
       q.kind = "days/d/byCounty/c.json" /\ Len(tree[q]) = TOP_N_PER_COUNTY

\* C9: after a run that extracted a record, the count of summary.json is
\* the sum of the counts of the entries of trends/summary_by_day.json.
C9_CountsConsistent ==
  (pc = "done" /\ all_rows # <<>>) =>
    tree[SummaryPath].count
      = Sum([i \in DOMAIN tree[TrendsPath] |-> tree[TrendsPath][i].count])

\* C10: after a run, the all-days document byCounty/{label}.json of every
\* county group of the records holds rows of that group and of no other.
C10_OneGroupPerDocument ==
  (pc = "done" /\ all_rows # <<>>) =>
    \A c \in Counties(all_rows) :
      \A r \in Range(tree[ByCountyPath(c)]) : r.County = c

====
